---------------------------- MODULE Spec2Model ----------------------------
(***************************************************************************)
(* Model of open-svo2: the video reconstructor and codec sniffer           *)
(* (open_svo2.convert), the channel extractor (svo2_extract.extractor),    *)
(* the metadata extractor (open_svo2.metadata) and the intrinsics loader   *)
(* (open_svo2.intrinsics).  Each operation has its own specification; the  *)
(* variables of the operations that are not running keep their idle value. *)
(*                                                                         *)
(* Byte strings are sequences of naturals in 0..255.  A video message's    *)
(* data is described by its total length and by the values the code reads  *)
(* at the offsets it reads them from: the second little-endian u32         *)
(* (frame_size), the bytes of data[8 : 8 + frame_size], and the timestamp  *)
(* and last_keyframe_index fields of the 56 bytes that follow them.        *)
(***************************************************************************)
EXTENDS Integers, Sequences, FiniteSets, TLC

VARIABLES
    pc,            \* position inside mp4_from_svo2
    err,           \* the exception mp4_from_svo2 ended with, or "none"
    cur,           \* the message last taken from stream_iter (first_msg, msg)
    gen,           \* position of message_generator: "first" or "rest"
    codec_name,    \* codec passed to container.add_stream
    start_ts,      \* footer timestamp of the first message
    container,     \* the output container: "absent", "open", "closed"
    packets,       \* pts of every packet given to container.mux, in order
    timestamps,    \* list timestamps
    keyframes,     \* list keyframes
    last_pts,      \* last_pts
    computed,      \* value of pts_us at line 125 for every loop iteration
    warnings,      \* records passed to logger.warning, in order
    ts_meta,       \* metadata.timestamps entry read at line 143
    result,        \* value returned by mp4_from_svo2
    xpc,               \* position inside extract_channel
    channels,          \* summary.channels, in iteration order
    channel_topic,     \* the selector
    target_channel_id, \* target_channel_id
    seen,              \* messages reader.iter_messages() has yielded
    out_file,          \* bytes of the output file
    out_state,         \* "untouched", "open" or "closed"
    message_count,     \* message_count
    total_bytes,       \* total_bytes
    xresult,           \* value returned by extract_channel
    cpc,           \* position inside detect_codec
    codec_sample,  \* detect_codec's argument
    codec,         \* value returned by detect_codec
    ipc,           \* position inside StereoIntrinsics.from_config
    cfg,           \* the parsed configuration: its sections and their keys
    mode,          \* argument mode, then the resolved mode
    height,        \* argument height
    ierr,          \* the exception from_config ended with
    hpc,           \* position inside Header.from_base64
    hdata,         \* argument data: base64 characters, 64 standing for "="
    decoded,       \* local decoded of from_base64
    header,        \* the Header returned
    herr,          \* the exception from_base64 ended with
    mpc,           \* position inside Metadata.from_mcap
    mcap,          \* the container: its summary and its control messages
    consumed,      \* messages taken from each control channel's stream
    summary_short, \* local summary_short: topic -> channel id
    raw_footer,    \* local footer: the parsed svo_footer record
    raw_header,    \* local header: the parsed svo_header record
    metadata,      \* the Metadata returned
    merr,          \* the exception from_mcap ended with
    kpc,           \* position inside Metadata.consistency_check
    self_channels, \* keys of self.channels, in iteration order
    serial_number, \* self.header.serial_number
    next_channel,  \* index of the channel the loop looks at next
    log,           \* warnings logged so far
    kerr           \* the exception consistency_check ended with

mp4vars == <<pc, err, cur, gen, codec_name, start_ts, container,
             packets, timestamps, keyframes, last_pts, computed, warnings,
             ts_meta, result>>

xvars == <<xpc, channels, channel_topic, target_channel_id, seen, out_file,
           out_state, message_count, total_bytes, xresult>>

cvars == <<cpc, codec_sample, codec>>

ivars == <<ipc, cfg, mode, height, ierr>>

hvars == <<hpc, hdata, decoded, header, herr>>

mvars == <<mpc, mcap, consumed, summary_short, raw_footer, raw_header,
           metadata, merr>>

kvars == <<kpc, self_channels, serial_number, next_channel, log, kerr>>

vars == <<mp4vars, xvars, cvars, ivars, hvars, mvars, kvars>>

\* what an action of one operation leaves alone
notmp4 == <<xvars, cvars, ivars, hvars, mvars, kvars>>
notx == <<mp4vars, cvars, ivars, hvars, mvars, kvars>>
notc == <<mp4vars, xvars, ivars, hvars, mvars, kvars>>
noti == <<mp4vars, xvars, cvars, hvars, mvars, kvars>>
noth == <<mp4vars, xvars, cvars, ivars, mvars, kvars>>
notm == <<mp4vars, xvars, cvars, ivars, hvars, kvars>>
notk == <<mp4vars, xvars, cvars, ivars, hvars, mvars>>

---------------------------------------------------------------------------
(* Bounds of the model *)

MaxMsgs == 3          \* video messages the stream yields at most
MaxTsIdx == 2         \* footer timestamps are 0, 600, ..., 600 * MaxTsIdx
MaxChannels == 2      \* channels the summary declares at most
MaxExtractMsgs == 3   \* messages the container yields at most
MaxMissing == 1       \* sections or keys a configuration lacks at most
MaxPad == 2           \* "=" characters that end a base64 string at most
MaxStride == 2        \* step between successive base64 characters at most
MaxExtra == 1         \* messages a control channel holds after its first
MaxMetaChannels == 2  \* channels a Metadata names at most

(* Program constants *)

NumFields == 32       \* entries of Header._fields_
WordSize == 4         \* sizeof(c_uint32) = sizeof(c_float)
IntMaxStrDigits == 4300   \* digits int() accepts (sys.int_info default)
CalibFloats == 18     \* float32 values of one calibration blob
FooterSize == 56      \* sizeof(FrameFooter)
HeaderWindow == 128   \* sample[:128]
PrefixSize == 8       \* struct "<II"

None == "None"

Min(a, b) == IF a < b THEN a ELSE b
Max(a, b) == IF a > b THEN a ELSE b

\* Python's s[lo:hi] on a sequence, 0 <= lo, 0 <= hi
Slice(s, lo, hi) == SubSeq(s, lo + 1, Min(hi, Len(s)))

---------------------------------------------------------------------------
(* detect_codec *)

\* bytes.find(b'\x00\x00\x00\x01'): first 0-based index, or -1
FindStartCode(h) ==
    LET hits == { i \in 0..(Len(h) - 4) :
                    /\ h[i + 1] = 0 /\ h[i + 2] = 0
                    /\ h[i + 3] = 0 /\ h[i + 4] = 1 }
    IN IF hits = {} THEN -1
       ELSE CHOOSE i \in hits : \A j \in hits : i <= j

\* "hevc", "h264", or "IndexError" when header_bytes[start_idx + 4] is out
\* of range
detect_codec(sample) ==
    LET header_bytes == Slice(sample, 0, HeaderWindow)
        start_idx == FindStartCode(header_bytes)
    IN IF start_idx # -1
       THEN IF start_idx + 4 >= Len(header_bytes)
            THEN "IndexError"
            ELSE LET nal_byte == header_bytes[start_idx + 4 + 1]
                     hevc_type == (nal_byte \div 2) % 64
                     h264_type == nal_byte % 32
                 IN IF hevc_type \in {32, 33, 34} THEN "hevc"
                    ELSE IF h264_type \in {7, 8} THEN "h264"
                    ELSE "hevc"
       ELSE "hevc"

\* the inputs detect_codec is called on: filler bytes, then possibly a
\* start code, possibly a NAL byte, possibly a second start code and byte
StartCode == << 0, 0, 0, 1 >>

Fill(n) == [ i \in 1..n |-> 255 ]

PrefixLens == { 0, 1, HeaderWindow - 5, HeaderWindow - 4, HeaderWindow - 3,
                HeaderWindow }

NalBytes == { 0, 1, 7, 8, 39, 64, 65, 66, 68, 70, 103, 104, 200 }

CodecSamples ==
    { Fill(q[1]) \o q[2] \o q[3] \o q[4] :
        q \in PrefixLens \X { << >>, StartCode }
               \X ({ << >> } \cup { << b >> : b \in NalBytes })
               \X { << >>, StartCode \o << 103 >> } }

\* detect_codec is not called
CodecIdle ==
    /\ cpc = "idle"
    /\ codec_sample = << >>
    /\ codec = None

\* detect_codec is called on a sample
CodecBegin ==
    /\ cpc = "call"
    /\ codec_sample \in CodecSamples
    /\ codec = None

\* lines 26-45
DetectCodec ==
    /\ UNCHANGED notc
    /\ cpc = "call"
    /\ LET r == detect_codec(codec_sample)
       IN IF r = "IndexError"
          THEN cpc' = "raised" /\ codec' = codec
          ELSE cpc' = "returned" /\ codec' = r
    /\ codec_sample' = codec_sample

---------------------------------------------------------------------------
(* Video messages *)

TsSet == { 600 * k : k \in 0..MaxTsIdx }
KfSet == { -1, 1 }

\* payload samples: empty, an AVC SPS, a bare start code
Samples == { <<>>, <<0, 0, 0, 1, 103>>, <<0, 0, 0, 1>> }

\* length of msg.data relative to 8 + frame_size + 56
Deltas == { 0 - (FooterSize + 1), -1, 0, 1 }

\* msg.data of length n whose second u32 is Len(s); body is what is present
\* of data[8 : 8 + frame_size]; ts and kf are the footer fields when the 56
\* bytes after the payload are present
MkMsg(s, d, t, k) ==
    LET n == PrefixSize + Len(s) + FooterSize + d
    IN [ n    |-> n,
         size |-> Len(s),
         body |-> Slice(s, 0, Max(0, n - PrefixSize)),
         ts   |-> IF d >= 0 THEN t ELSE 0,
         kf   |-> IF d >= 0 THEN k ELSE 0 ]

\* no message
NoMsg == [ n |-> -1, size |-> 0, body |-> <<>>, ts |-> 0, kf |-> 0 ]

\* msg.data shorter than the two u32
ShortMsg(n) == [ n |-> n, size |-> 0, body |-> <<>>, ts |-> 0, kf |-> 0 ]

VideoMsgs ==
    { MkMsg(q[1], q[2], q[3], q[4]) : q \in Samples \X Deltas \X TsSet \X KfSet }
    \cup { ShortMsg(n) : n \in {0, PrefixSize - 1} }

\* struct.unpack("<II", msg.data[:8]) raises struct.error on a short buffer
UnpackFails(m) == m.n < PrefixSize

\* msg.data[8 : 8 + size]
Payload(m) == m.body

\* len(msg.data[8 + size:])
TrailingLen(m) == Max(0, m.n - (PrefixSize + m.size))

\* FrameFooter.from_buffer_copy(buf) raises ValueError when buf is smaller
\* than sizeof(FrameFooter); a larger buf is accepted and its first 56 bytes
\* are copied
FooterFails(m) == TrailingLen(m) < FooterSize

FrameFooter(m) == [ timestamp |-> m.ts, last_keyframe_index |-> m.kf ]

---------------------------------------------------------------------------
(* numpy *)

\* a uint32 value as its two 16-bit halves: hi * 65536 + lo
Half == 65536

\* the uint32 that a Python int in the int32 range converts to, modulo 2^32
U32Of(x) == [ hi |-> (x \div Half) % Half, lo |-> x % Half ]

\* whether the uint32 u is the integer x
U32Equals(u, x) == x >= 0 /\ u = U32Of(x)

\* no array
NoResult == [ shape |-> << >>, data |-> << >> ]

\* np.zeros((), dtype=np.uint32): a 0-d array holding one element
NpZerosScalar == [ shape |-> <<>>, data |-> << U32Of(0) >> ]

\* number of elements of an array: the product of its shape
NpSize(a) == IF a.shape = <<>> THEN 1 ELSE a.shape[1]

\* np.array(list, dtype=np.uint32) on Python ints (c_int32 fields): a
\* negative int wraps modulo 2^32 (numpy < 2) or raises OverflowError
\* (numpy >= 2)
NpArrayUint32(lst) ==
    LET wrapped == [ shape |-> <<Len(lst)>>,
                     data  |-> [ i \in 1..Len(lst) |-> U32Of(lst[i]) ] ]
    IN IF \A i \in 1..Len(lst) : lst[i] >= 0
       THEN { [ raised |-> FALSE, array |-> wrapped ] }
       ELSE { [ raised |-> FALSE, array |-> wrapped ],
              [ raised |-> TRUE, array |-> NoResult ] }

---------------------------------------------------------------------------
(* mp4_from_svo2 *)

\* a / b rounded toward zero, b > 0
TruncDiv(a, b) == IF a >= 0 THEN a \div b ELSE 0 - ((0 - a) \div b)

\* the division truncates toward zero instead of flooring
PtsUs_Trunc(ts, start) == TruncDiv(ts - start, 1000)

\* int(footer.timestamp - start_ts) // 1000: Python floor division
PtsUs(ts, start) == (ts - start) \div 1000

\* the comparison is strict: an equal timestamp is let through
ClampPts_Strict(pts_us, last) == IF pts_us < last THEN last + 1 ELSE pts_us

\* the clamp repeats the last timestamp
ClampPts_ToLast(pts_us, last) == IF pts_us <= last THEN last ELSE pts_us

\* lines 128-132: the pts given to the packet
ClampPts(pts_us, last) == IF pts_us <= last THEN last + 1 ELSE pts_us

\* the log record of lines 129-131, or nothing
ClampWarning(i, pts_us, last) ==
    IF pts_us <= last
    THEN << [ kind |-> "non_monotonic", frame |-> i,
              pts |-> pts_us, last |-> last ] >>
    ELSE << >>

\* _check_timestamps: the records logged
check_timestamps(meta, footer) ==
    IF Len(meta) # Len(footer)
    THEN << [ kind |-> "count_mismatch", meta |-> Len(meta),
              footer |-> Len(footer) ] >>
    ELSE IF meta # footer
         THEN << [ kind |-> "ts_mismatch",
                   where |-> { i \in 1..Len(meta) : meta[i] # footer[i] } ] >>
         ELSE << >>

\* the video channel is not a key of metadata.timestamps
NoEntry == [ present |-> FALSE, ts |-> << >> ]

\* the values metadata.timestamps may hold for the video channel: no entry,
\* the footers' own timestamps, one more, one fewer, or shifted values
MetaEntries(ts) ==
    { NoEntry }
    \cup { [ present |-> TRUE, ts |-> t ] :
             t \in { ts, Append(ts, 0), Tail(ts),
                     [ i \in 1..Len(ts) |-> ts[i] + 1 ] } }

Raise(e) == pc' = "raised" /\ err' = e

Mp4Begin ==
    /\ pc = "start"
    /\ err = "none"
    /\ cur = NoMsg
    /\ gen = "first"
    /\ codec_name = None
    /\ start_ts = 0
    /\ container = "absent"
    /\ packets = << >>
    /\ timestamps = << >>
    /\ keyframes = << >>
    /\ last_pts = -1
    /\ computed = << >>
    /\ warnings = << >>
    /\ ts_meta = NoEntry
    /\ result = NoResult

\* mp4_from_svo2 is not called
Mp4Idle ==
    /\ pc = "idle"
    /\ err = "none"
    /\ cur = NoMsg
    /\ gen = "first"
    /\ codec_name = None
    /\ start_ts = 0
    /\ container = "absent"
    /\ packets = << >>
    /\ timestamps = << >>
    /\ keyframes = << >>
    /\ last_pts = -1
    /\ computed = << >>
    /\ warnings = << >>
    /\ ts_meta = NoEntry
    /\ result = NoResult

\* lines 90-93: the video channel yields nothing
FirstNone ==
    /\ UNCHANGED notmp4
    /\ pc = "start"
    /\ result' = NpZerosScalar
    /\ pc' = "done"
    /\ UNCHANGED <<err, cur, gen, codec_name, start_ts, container,
                   packets, timestamps, keyframes, last_pts, computed,
                   warnings, ts_meta>>

\* lines 90-116: the first message is decoded, the container is opened
ReadFirst ==
    /\ UNCHANGED notmp4
    /\ pc = "start"
    /\ \E m \in VideoMsgs :
        /\ cur' = m
        /\ IF UnpackFails(m)
           THEN /\ Raise("struct.error")
                /\ UNCHANGED <<codec_name, start_ts, container>>
           ELSE IF detect_codec(Payload(m)) = "IndexError"
           THEN /\ Raise("IndexError")
                /\ UNCHANGED <<codec_name, start_ts, container>>
           ELSE IF FooterFails(m)
           THEN /\ Raise("ValueError")
                /\ UNCHANGED <<codec_name, start_ts, container>>
           ELSE /\ codec_name' = detect_codec(Payload(m))
                /\ start_ts' = FrameFooter(m).timestamp
                /\ container' = "open"
                /\ pc' = "loop"
                /\ err' = err
    /\ last_pts' = -1
    /\ UNCHANGED <<gen, packets, timestamps, keyframes, computed, warnings,
                   ts_meta, result>>

\* lines 118-138: one iteration of the loop on message m
LoopBody(m) ==
    IF UnpackFails(m)
    THEN /\ Raise("struct.error")
         /\ container' = "closed"
         /\ UNCHANGED <<packets, timestamps, keyframes, last_pts, computed,
                        warnings>>
    ELSE IF FooterFails(m)
    THEN /\ Raise("ValueError")
         /\ container' = "closed"
         /\ UNCHANGED <<packets, timestamps, keyframes, last_pts, computed,
                        warnings>>
    ELSE LET footer == FrameFooter(m)
             i      == Len(timestamps)
             pts_us == PtsUs(footer.timestamp, start_ts)
             pts    == ClampPts(pts_us, last_pts)
         IN /\ timestamps' = Append(timestamps, footer.timestamp)
            /\ keyframes' = Append(keyframes, footer.last_keyframe_index)
            /\ computed' = Append(computed, pts_us)
            /\ warnings' = warnings \o ClampWarning(i, pts_us, last_pts)
            /\ last_pts' = pts
            /\ packets' = Append(packets, pts)
            /\ UNCHANGED <<pc, err, container>>

\* message_generator yields first_msg
MuxFirst ==
    /\ UNCHANGED notmp4
    /\ pc = "loop"
    /\ gen = "first"
    /\ gen' = "rest"
    /\ LoopBody(cur)
    /\ UNCHANGED <<cur, codec_name, start_ts, ts_meta, result>>

\* message_generator yields the next message of stream_iter
MuxNext ==
    /\ UNCHANGED notmp4
    /\ pc = "loop"
    /\ gen = "rest"
    /\ Len(timestamps) < MaxMsgs
    /\ \E m \in VideoMsgs :
        /\ cur' = m
        /\ LoopBody(m)
    /\ UNCHANGED <<gen, codec_name, start_ts, ts_meta, result>>

\* stream_iter is exhausted: the with block and line 140 close the container
StreamEnd ==
    /\ UNCHANGED notmp4
    /\ pc = "loop"
    /\ gen = "rest"
    /\ container' = "closed"
    /\ pc' = "check"
    /\ UNCHANGED <<err, cur, gen, codec_name, start_ts, packets,
                   timestamps, keyframes, last_pts, computed, warnings,
                   ts_meta, result>>

\* lines 142-145
CheckTimestamps ==
    /\ UNCHANGED notmp4
    /\ pc = "check"
    /\ \E meta \in MetaEntries(timestamps) :
        /\ ts_meta' = meta
        /\ IF ~meta.present
           THEN /\ Raise("KeyError")
                /\ UNCHANGED warnings
           ELSE /\ warnings' = warnings \o check_timestamps(meta.ts, timestamps)
                /\ pc' = "return"
                /\ err' = err
    /\ UNCHANGED <<cur, gen, codec_name, start_ts, container,
                   packets, timestamps, keyframes, last_pts, computed, result>>

\* line 147
Return ==
    /\ UNCHANGED notmp4
    /\ pc = "return"
    /\ \E r \in NpArrayUint32(keyframes) :
        IF r.raised
        THEN /\ Raise("OverflowError")
             /\ UNCHANGED result
        ELSE /\ result' = r.array
             /\ pc' = "done"
             /\ err' = err
    /\ UNCHANGED <<cur, gen, codec_name, start_ts, container,
                   packets, timestamps, keyframes, last_pts, computed,
                   warnings, ts_meta>>

---------------------------------------------------------------------------
(* extract_channel *)

\* topics and selectors are strings, as sequences of characters
Digits == << "0", "1", "2", "3", "4", "5", "6", "7", "8", "9" >>

\* str(channel_id)
RECURSIVE Str(_)
Str(n) ==
    IF n < 10 THEN << Digits[n + 1] >>
    ELSE Str(n \div 10) \o << Digits[(n % 10) + 1] >>

\* Python's  needle in hay  on strings
IsSubstring(needle, hay) ==
    \E i \in 0..(Len(hay) - Len(needle)) :
        SubSeq(hay, i + 1, i + Len(needle)) = needle

\* line 82
Matches(ch, sel) == IsSubstring(sel, ch.topic) \/ Str(ch.id) = sel

\* lines 81-88: index in chs of the channel the loop breaks on, 0 if none
FirstMatch(chs, sel) ==
    LET hits == { i \in 1..Len(chs) : Matches(chs[i], sel) }
    IN IF hits = {} THEN 0
       ELSE CHOOSE i \in hits : \A j \in hits : i <= j

\* None, as a channel id
NoId == -1

\* Python's  not target_channel_id  : true of None and of 0
NotTruthy(id) == id = NoId \/ id = 0

\* the channel is not compared: every non-empty message is copied
Copied_AnyChannel(msg, target) == msg.data # << >>

\* line 102: the message is copied
Copied(msg, target) == msg.id = target /\ msg.data # << >>

ChannelIds == 0..2
Topics == { << "s" >>, << "s", "1" >> }
Selectors == { << "s" >>, << "1" >>, << "0" >>, << "x" >> }
Payloads == { << >>, << 7 >>, << 8 >> }

\* the tables of at most MaxChannels channels with distinct ids
ChannelTables ==
    UNION { { t \in [ 1..n -> [ id : ChannelIds, topic : Topics ] ] :
                \A i \in 1..n : \A j \in 1..n : i # j => t[i].id # t[j].id }
            : n \in 0..MaxChannels }

NoXResult == [ message_count |-> -1, total_bytes |-> -1, channel |-> << >> ]

\* extract_channel is not called
XIdle ==
    /\ xpc = "idle"
    /\ channels = << >>
    /\ channel_topic = << >>
    /\ target_channel_id = NoId
    /\ seen = << >>
    /\ out_file = << >>
    /\ out_state = "untouched"
    /\ message_count = 0
    /\ total_bytes = 0
    /\ xresult = NoXResult

\* extract_channel is called on a container and a selector; the output
\* path names a file that holds one byte
XBegin ==
    /\ xpc = "find"
    /\ channels \in ChannelTables
    /\ channel_topic \in Selectors
    /\ target_channel_id = NoId
    /\ seen = << >>
    /\ out_file = << 9 >>
    /\ out_state = "untouched"
    /\ message_count = 0
    /\ total_bytes = 0
    /\ xresult = NoXResult

\* the output file is opened before the channel is looked up
FindChannel_OpenFirst ==
    /\ UNCHANGED notx
    /\ xpc = "find"
    /\ out_file' = << >>
    /\ LET k == FirstMatch(channels, channel_topic)
           id == IF k = 0 THEN NoId ELSE channels[k].id
       IN /\ target_channel_id' = id
          /\ IF NotTruthy(id)
             THEN xpc' = "raised" /\ out_state' = "closed"
             ELSE xpc' = "copy" /\ out_state' = "open"
    /\ UNCHANGED <<channels, channel_topic, seen, message_count, total_bytes,
                   xresult>>

\* lines 78-100: the channel is looked up and the output file opened
FindChannel ==
    /\ UNCHANGED notx
    /\ xpc = "find"
    /\ LET k == FirstMatch(channels, channel_topic)
           id == IF k = 0 THEN NoId ELSE channels[k].id
       IN /\ target_channel_id' = id
          /\ IF NotTruthy(id)
             THEN /\ xpc' = "raised"
                  /\ UNCHANGED <<out_file, out_state>>
             ELSE /\ xpc' = "copy"
                  /\ out_file' = << >>
                  /\ out_state' = "open"
    /\ UNCHANGED <<channels, channel_topic, seen, message_count, total_bytes,
                   xresult>>

\* lines 101-107: one message of the container
CopyMessage ==
    /\ UNCHANGED notx
    /\ xpc = "copy"
    /\ Len(seen) < MaxExtractMsgs
    /\ \E c \in 1..Len(channels) : \E d \in Payloads :
        LET msg == [ id |-> channels[c].id, data |-> d ]
        IN /\ seen' = Append(seen, msg)
           /\ IF Copied(msg, target_channel_id)
              THEN /\ out_file' = out_file \o msg.data
                   /\ message_count' = message_count + 1
                   /\ total_bytes' = total_bytes + Len(msg.data)
              ELSE UNCHANGED <<out_file, message_count, total_bytes>>
    /\ UNCHANGED <<xpc, channels, channel_topic, target_channel_id,
                   out_state, xresult>>

\* lines 109-117: the container is exhausted
Finish ==
    /\ UNCHANGED notx
    /\ xpc = "copy"
    /\ out_state' = "closed"
    /\ xresult' = [ message_count |-> message_count,
                    total_bytes   |-> total_bytes,
                    channel |->
                      channels[FirstMatch(channels, channel_topic)].topic ]
    /\ xpc' = "done"
    /\ UNCHANGED <<channels, channel_topic, target_channel_id, seen,
                   out_file, message_count, total_bytes>>

---------------------------------------------------------------------------
(* StereoIntrinsics.from_config *)

Modes == { "FHD1200", "FHD", "SVGA" }

\* height is None
NoHeight == -1

\* no exception
NoError == [ kind |-> "none", key |-> "" ]

\* lines 155-165: the mode of a height, or None when it is unrecognized
infer_mode(h) ==
    IF h = 1200 THEN "FHD1200"
    ELSE IF h = 1080 THEN "FHD"
    ELSE IF h = 600 THEN "SVGA"
    ELSE None

\* the keys Intrinsics.from_config reads, in the order it reads them
CamKeys == << "fx", "cx", "fy", "cy", "k1", "k2", "p1", "p2", "k3" >>

\* the keys lines 128-133 read from cfg["STEREO"], in order
StereoKeys(m) ==
    << "Baseline", "TY", "TZ", "CV_" \o m, "RX_" \o m, "RZ_" \o m >>

\* the lookups cfg[section] (key "") and cfg[section][key] of one section
SectionLookups(section, keys) ==
    << [ section |-> section, key |-> "" ] >>
    \o [ i \in 1..Len(keys) |-> [ section |-> section, key |-> keys[i] ] ]

\* lines 120-121: the lookups inside the try block, in order
CameraLookups(m) ==
    SectionLookups("LEFT_CAM_" \o m, CamKeys)
    \o SectionLookups("RIGHT_CAM_" \o m, CamKeys)

\* lines 128-133: the lookups of the return statement, in order
StereoLookups(m) == SectionLookups("STEREO", StereoKeys(m))

\* whether the lookup succeeds on configuration c
Has(c, lk) ==
    /\ lk.section \in c.sections
    /\ lk.key = "" \/ << lk.section, lk.key >> \in c.keys

\* index of the first lookup of lks that raises KeyError, 0 if none does
FirstMissing(c, lks) ==
    LET miss == { i \in 1..Len(lks) : ~Has(c, lks[i]) }
    IN IF miss = {} THEN 0
       ELSE CHOOSE i \in miss : \A j \in miss : i <= j

\* the key a failed lookup's KeyError carries
MissingName(lk) == IF lk.key = "" THEN lk.section ELSE lk.key

\* lines 126-134 run outside the try block: the KeyError propagates
StereoErrorKind == "KeyError"

\* a configuration that holds every section and key of every mode
FullSections ==
    { "LEFT_CAM_" \o m : m \in Modes } \cup { "RIGHT_CAM_" \o m : m \in Modes }
    \cup { "STEREO" }

FullKeys ==
    UNION { { << "LEFT_CAM_" \o m, CamKeys[i] >> : i \in 1..Len(CamKeys) }
            \cup { << "RIGHT_CAM_" \o m, CamKeys[i] >> : i \in 1..Len(CamKeys) }
            \cup { << "STEREO", StereoKeys(m)[i] >> : i \in 1..6 }
            : m \in Modes }

\* what a configuration may lack: a section, or a key of a section
Items ==
    { [ section |-> sec, key |-> "" ] : sec \in FullSections }
    \cup { [ section |-> p[1], key |-> p[2] ] : p \in FullKeys }

\* the sets of at most k items
RECURSIVE Lacks(_)
Lacks(k) ==
    IF k = 0 THEN { {} }
    ELSE Lacks(k - 1)
         \cup { D \cup { x } : D \in Lacks(k - 1), x \in Items }

\* the full configuration without the items of D
Without(D) ==
    [ sections |-> { sec \in FullSections :
                       [ section |-> sec, key |-> "" ] \notin D },
      keys     |-> { p \in FullKeys :
                       [ section |-> p[1], key |-> p[2] ] \notin D } ]

Configs == { Without(D) : D \in Lacks(MaxMissing) }

\* from_config is not called
IntrIdle ==
    /\ ipc = "idle"
    /\ cfg = [ sections |-> {}, keys |-> {} ]
    /\ mode = None
    /\ height = NoHeight
    /\ ierr = NoError

\* from_config is called on a parsed configuration
IntrBegin ==
    /\ ipc = "call"
    /\ cfg \in Configs
    /\ mode \in Modes \cup { None, "HD" }
    /\ height \in { NoHeight, 1200, 1080, 600, 720 }
    /\ ierr = NoError

\* lines 114-134
FromConfig ==
    /\ UNCHANGED noti
    /\ ipc = "call"
    /\ LET m == IF mode = None THEN infer_mode(height) ELSE mode
           cam == CameraLookups(m)
           st == StereoLookups(m)
           c == FirstMissing(cfg, cam)
           t == FirstMissing(cfg, st)
       IN IF mode = None /\ height = NoHeight
          THEN /\ ierr' = [ kind |-> "ValueError", key |-> "" ]
               /\ ipc' = "raised"
               /\ mode' = mode
          ELSE IF m = None
          THEN /\ ierr' = [ kind |-> "ValueError", key |-> "" ]
               /\ ipc' = "raised"
               /\ mode' = mode
          ELSE /\ mode' = m
               /\ IF c # 0
                  THEN /\ ierr' = [ kind |-> "ValueError",
                                    key |-> MissingName(cam[c]) ]
                       /\ ipc' = "raised"
                  ELSE IF t # 0
                  THEN /\ ierr' = [ kind |-> StereoErrorKind,
                                    key |-> MissingName(st[t]) ]
                       /\ ipc' = "raised"
                  ELSE /\ ierr' = ierr
                       /\ ipc' = "returned"
    /\ UNCHANGED <<cfg, height>>

---------------------------------------------------------------------------
(* Header.from_base64 *)

\* sizeof(Header): 32 fields of four bytes, no padding between them
SizeofHeader == NumFields * WordSize

\* the character "=" among the 64 base64 digits 0..63
PadChar == 64

\* base64.b64decode(data), not validating, of digits followed by "=":
\* the digits fill groups of four, each giving three bytes; a last group
\* of two or three digits gives one or two bytes when enough "=" complete
\* it, and is binascii.Error otherwise, as is a last group of one digit
b64decode(s) ==
    LET nd == Cardinality({ i \in 1..Len(s) : s[i] # PadChar })
        np == Len(s) - nd
        r == nd % 4
        n == 3 * (nd \div 4) + (IF r >= 2 THEN r - 1 ELSE 0)
    IN [ ok    |-> r = 0 \/ (r >= 2 /\ r + np >= 4),
         bytes |-> [ k \in 1..n |->
                     LET g == 4 * ((k - 1) \div 3)
                         j == (k - 1) % 3
                     IN IF j = 0 THEN s[g + 1] * 4 + s[g + 2] \div 16
                        ELSE IF j = 1
                        THEN (s[g + 2] % 16) * 16 + s[g + 3] \div 4
                        ELSE (s[g + 3] % 4) * 64 + s[g + 4] ] ]

\* line 89: the decoded length is not the size of the structure
SizeMismatch_TooShort(buf) == Len(buf) < SizeofHeader

SizeMismatch(buf) == Len(buf) # SizeofHeader

\* cls.from_buffer_copy(buf): the fields are the little-endian words of the
\* first sizeof(cls) bytes, each kept as its two 16-bit halves
from_buffer_copy(buf) ==
    [ f \in 1..NumFields |->
        [ lo |-> buf[WordSize * f - 3] + 256 * buf[WordSize * f - 2],
          hi |-> buf[WordSize * f - 1] + 256 * buf[WordSize * f] ] ]

\* bytes(header): the memory of the structure
HeaderBytes(h) ==
    [ k \in 1..(Len(h) * WordSize) |->
        LET w == h[(k + WordSize - 1) \div WordSize]
            r == (k - 1) % WordSize
        IN IF r = 0 THEN w.lo % 256
           ELSE IF r = 1 THEN w.lo \div 256
           ELSE IF r = 2 THEN w.hi % 256
           ELSE w.hi \div 256 ]

\* no Header
NoHeader == << >>

\* the base64 characters needed for n bytes, padding apart
CharsFor(n) ==
    4 * (n \div 3) + (IF n % 3 = 0 THEN 0 ELSE (n % 3) + 1)

\* n base64 digits starting at b and stepping by a, then p times "="
B64String(n, a, b, p) ==
    [ i \in 1..(n + p) |-> IF i <= n THEN (a * i + b) % 64 ELSE PadChar ]

\* strings that decode to no byte, a few bytes, one byte less or more than
\* the header, exactly the header, and strings that do not decode
HeaderStrings ==
    { B64String(n, a, b, p) :
        n \in { 0, 1, 2, 4, CharsFor(SizeofHeader) - 2,
                CharsFor(SizeofHeader - 1), CharsFor(SizeofHeader),
                CharsFor(SizeofHeader + 1), CharsFor(SizeofHeader + WordSize) },
        a \in 0..MaxStride,
        b \in { 0, 21, 63 },
        p \in 0..MaxPad }

\* from_base64 is not called
HeaderIdle ==
    /\ hpc = "idle"
    /\ hdata = << >>
    /\ decoded = << >>
    /\ header = NoHeader
    /\ herr = "none"

\* from_base64 is called on a string
HeaderBegin ==
    /\ hpc = "call"
    /\ hdata \in HeaderStrings
    /\ decoded = << >>
    /\ header = NoHeader
    /\ herr = "none"

\* lines 88-93
FromBase64 ==
    /\ UNCHANGED noth
    /\ hpc = "call"
    /\ LET d == b64decode(hdata)
       IN IF ~d.ok
          THEN /\ herr' = "binascii.Error"
               /\ hpc' = "raised"
               /\ UNCHANGED <<decoded, header>>
          ELSE /\ decoded' = d.bytes
               /\ IF SizeMismatch(d.bytes)
                  THEN /\ herr' = "ValueError"
                       /\ hpc' = "raised"
                       /\ header' = header
                  ELSE /\ header' = from_buffer_copy(d.bytes)
                       /\ hpc' = "returned"
                       /\ herr' = herr
    /\ hdata' = hdata

---------------------------------------------------------------------------
(* Metadata.from_mcap *)

\* topics a summary declares and a footer record names
MetaTopics == { "Camera_SN123/side_by_side", "ghost" }

\* summary.channels: channel id -> topic, the topics distinct
SummaryChannels ==
    { << >>, << "Camera_SN123/side_by_side" >>, << "ghost" >>,
      << "Camera_SN123/side_by_side", "ghost" >> }

\* the value of svo_header's "header" key: a header of 128 bytes, one byte
\* less, a string that is not base64, and the default "" of a missing key
HeaderValues ==
    { B64String(CharsFor(SizeofHeader), 1, 0, 1),
      B64String(CharsFor(SizeofHeader - 1), 1, 0, 2),
      B64String(CharsFor(SizeofHeader), 1, 0, 0),
      << >> }

\* a control message whose data is not JSON
BadJson ==
    [ json |-> FALSE, keys |-> {}, ts |-> << >>, header |-> << >>,
      acc |-> 0, gyro |-> 0 ]

\* svo_footer data: a JSON object from channel names to timestamp lists
FooterMsgs ==
    { BadJson }
    \cup { [ json |-> TRUE, keys |-> K, ts |-> t, header |-> << >>,
             acc |-> 0, gyro |-> 0 ] :
           K \in SUBSET MetaTopics, t \in { << >>, << 5, 7 >> } }

\* svo_header data: a JSON object with the base64 header and the float32
\* counts of its two calibration blobs (0 when the key is missing)
HeaderMsgs ==
    { BadJson }
    \cup { [ json |-> TRUE, keys |-> {}, ts |-> << >>, header |-> h,
             acc |-> a, gyro |-> g ] :
           h \in HeaderValues,
           a \in { 0, CalibFloats, CalibFloats + 1 },
           g \in { CalibFloats, CalibFloats - 1 } }

\* the message that follows the first on a control channel
LaterMsg ==
    [ json |-> TRUE, keys |-> { "later" }, ts |-> << 9 >>,
      header |-> << >>, acc |-> 0, gyro |-> 0 ]

\* the messages of one channel: none, or a first one and up to MaxExtra more
Streams(first) ==
    { << >> }
    \cup { << f >> \o [ i \in 1..k |-> LaterMsg ] :
           f \in first, k \in 0..MaxExtra }

\* no exception
NoMErr == [ kind |-> "none", what |-> "" ]

\* no Metadata
NoMeta ==
    [ produced |-> FALSE, channels |-> << >>, keys |-> {}, ts |-> << >>,
      header |-> NoHeader ]

\* from_mcap is not called
MetaIdle ==
    /\ mpc = "idle"
    /\ mcap = [ summary |-> FALSE, channels |-> << >>,
                svo_footer |-> << >>, svo_header |-> << >> ]
    /\ consumed = [ svo_footer |-> 0, svo_header |-> 0 ]
    /\ summary_short = << >>
    /\ raw_footer = BadJson
    /\ raw_header = BadJson
    /\ metadata = NoMeta
    /\ merr = NoMErr

\* from_mcap is called on a reader
MetaBegin ==
    /\ mpc = "call"
    /\ \E sm \in BOOLEAN, ch \in SummaryChannels,
          fs \in Streams(FooterMsgs), hs \in Streams(HeaderMsgs) :
          mcap = [ summary |-> sm, channels |-> ch,
                   svo_footer |-> fs, svo_header |-> hs ]
    /\ consumed = [ svo_footer |-> 0, svo_header |-> 0 ]
    /\ summary_short = << >>
    /\ raw_footer = BadJson
    /\ raw_header = BadJson
    /\ metadata = NoMeta
    /\ merr = NoMErr

\* from_mcap ends with exception kind about what
MRaise(kind, what) ==
    /\ merr' = [ kind |-> kind, what |-> what ]
    /\ mpc' = "raised"

\* lines 153-156
GetSummary ==
    /\ UNCHANGED notm
    /\ mpc = "call"
    /\ IF ~mcap.summary
       THEN /\ MRaise("ValueError", "summary")
            /\ UNCHANGED summary_short
       ELSE /\ summary_short' = mcap.channels   \* inverted: topics distinct
            /\ mpc' = "footer"
            /\ UNCHANGED merr
    /\ UNCHANGED <<mcap, consumed, raw_footer, raw_header, metadata>>

\* _read_json_msg, lines 127-130, on the stream of topic: next takes one
\* message if there is one
ReadJsonMsg(topic, local, after) ==
    LET stream == mcap[topic]
    IN IF consumed[topic] >= Len(stream)
       THEN /\ MRaise("ValueError", topic)
            /\ UNCHANGED <<consumed, local>>
       ELSE /\ consumed' = [ consumed EXCEPT ![topic] = @ + 1 ]
            /\ IF ~stream[consumed[topic] + 1].json
               THEN /\ MRaise("JSONDecodeError", topic)
                    /\ UNCHANGED local
               ELSE /\ local' = stream[consumed[topic] + 1]
                    /\ mpc' = after
                    /\ UNCHANGED merr

\* lines 134-135, a missing svo_footer message passed over
ReadFooter_NoRaise ==
    /\ UNCHANGED notm
    /\ mpc = "footer"
    /\ IF consumed.svo_footer >= Len(mcap.svo_footer)
       THEN /\ mpc' = "header"
            /\ UNCHANGED <<consumed, raw_footer, merr>>
       ELSE ReadJsonMsg("svo_footer", raw_footer, "header")
    /\ UNCHANGED <<mcap, summary_short, raw_header, metadata>>

\* lines 134-135
ReadFooter ==
    /\ UNCHANGED notm
    /\ mpc = "footer"
    /\ ReadJsonMsg("svo_footer", raw_footer, "header")
    /\ UNCHANGED <<mcap, summary_short, raw_header, metadata>>

\* lines 137-138
ReadHeader ==
    /\ UNCHANGED notm
    /\ mpc = "header"
    /\ ReadJsonMsg("svo_header", raw_header, "build")
    /\ UNCHANGED <<mcap, summary_short, raw_footer, metadata>>

\* lines 159-182
Build ==
    /\ UNCHANGED notm
    /\ mpc = "build"
    /\ LET d == b64decode(raw_header.header)
       IN IF ~d.ok
          THEN /\ MRaise("binascii.Error", "header")
               /\ UNCHANGED metadata
          ELSE IF SizeMismatch(d.bytes)
          THEN /\ MRaise("ValueError", "header")
               /\ UNCHANGED metadata
          ELSE IF raw_header.acc # CalibFloats
          THEN /\ MRaise("ValueError", "Calib_acc")
               /\ UNCHANGED metadata
          ELSE IF raw_header.gyro # CalibFloats
          THEN /\ MRaise("ValueError", "Calib_gyro")
               /\ UNCHANGED metadata
          ELSE /\ metadata' = [ produced |-> TRUE,
                                channels |-> summary_short,
                                keys     |-> raw_footer.keys,
                                ts       |-> raw_footer.ts,
                                header   |-> from_buffer_copy(d.bytes) ]
               /\ mpc' = "done"
               /\ UNCHANGED merr
    /\ UNCHANGED <<mcap, consumed, summary_short, raw_footer, raw_header>>

---------------------------------------------------------------------------
(* Metadata.consistency_check *)

\* channel names are sequences of characters
CameraPrefix == << "C", "a", "m", "e", "r", "a" >>

CameraSN == CameraPrefix \o << "_", "S", "N" >>

DigitChars == << "0", "1", "2", "3", "4", "5", "6", "7", "8", "9" >>

IsDigit(c) == \E i \in 1..10 : DigitChars[i] = c

\* channel.startswith(p)
StartsWith(name, p) ==
    /\ Len(name) >= Len(p)
    /\ \A i \in 1..Len(p) : name[i] = p[i]

\* index of the first character at or after i that is no digit
DigitsEnd(name, i) ==
    LET stop == { j \in i..Len(name) : ~IsDigit(name[j]) }
    IN IF stop = {} THEN Len(name) + 1
       ELSE CHOOSE j \in stop : \A l \in stop : j <= l

\* re.match(r"Camera_SN(\d+)/(.*)", channel): group 1 when it matches
ReMatch(name) ==
    LET from == Len(CameraSN) + 1
        to == DigitsEnd(name, from)
    IN IF /\ StartsWith(name, CameraSN)
          /\ to > from
          /\ to <= Len(name)
          /\ name[to] = "/"
       THEN [ matched |-> TRUE, group1 |-> SubSeq(name, from, to - 1) ]
       ELSE [ matched |-> FALSE, group1 |-> << >> ]

\* int(s) of a digit string within the length int() accepts
RECURSIVE IntOf(_)
IntOf(ds) ==
    IF ds = << >> THEN 0
    ELSE 10 * IntOf(SubSeq(ds, 1, Len(ds) - 1))
         + (CHOOSE i \in 1..10 : DigitChars[i] = ds[Len(ds)]) - 1

\* int(s) raises ValueError on more than sys.get_int_max_str_digits() digits
IntRaises(ds) == Len(ds) > IntMaxStrDigits

\* "Camera_SN" digits "/" suffix
SerialName(digits, suffix) == CameraSN \o digits \o << "/" >> \o suffix

\* channel names: no camera, matching and other serials, a leading zero,
\* an empty suffix, names that do not parse, a name that only contains the
\* pattern, and a serial of more digits than int() accepts
ChannelNames ==
    { << "I", "M", "U" >>,
      SerialName(<< "1", "2", "3" >>, << "x" >>),
      SerialName(<< "0", "1", "2", "3" >>, << "x" >>),
      SerialName(<< "9", "9", "9" >>, << "x" >>),
      SerialName(<< "1", "2", "3" >>, << >>),
      CameraPrefix \o << "/", "l" >>,
      CameraSN \o << "1", "2" >>,
      CameraSN \o << "/", "x" >>,
      << "X" >> \o SerialName(<< "9", "9", "9" >>, << "x" >>),
      SerialName([ i \in 1..(IntMaxStrDigits + 1) |-> "1" ], << "x" >>) }

\* the orders in which a dict of at most n of the names iterates
RECURSIVE KeyOrders(_)
KeyOrders(n) ==
    IF n = 0 THEN { << >> }
    ELSE KeyOrders(n - 1)
         \cup { Append(ks, c) : ks \in KeyOrders(n - 1),
                                c \in ChannelNames }

\* no key of a dict occurs twice
Distinct(ks) == \A i, j \in 1..Len(ks) : ks[i] = ks[j] => i = j

\* consistency_check is not called
CheckIdle ==
    /\ kpc = "idle"
    /\ self_channels = << >>
    /\ serial_number = 0
    /\ next_channel = 0
    /\ log = << >>
    /\ kerr = "none"

\* consistency_check is called on a Metadata
CheckBegin ==
    /\ kpc = "loop"
    /\ self_channels \in { ks \in KeyOrders(MaxMetaChannels) : Distinct(ks) }
    /\ serial_number \in { 123, 999 }
    /\ next_channel = 1
    /\ log = << >>
    /\ kerr = "none"

\* the comparison of line 192
Mismatch(parsed, serial) == parsed # serial

\* lines 186-195, one iteration of the loop
CheckChannel ==
    /\ UNCHANGED notk
    /\ kpc = "loop"
    /\ next_channel <= Len(self_channels)
    /\ LET channel == self_channels[next_channel]
           m == ReMatch(channel)
       IN IF ~StartsWith(channel, CameraPrefix)
          THEN UNCHANGED <<log, kerr, kpc>>
          ELSE IF ~m.matched
          THEN /\ log' = Append(log, [ warning |-> "unexpected pattern",
                                       channel |-> channel ])
               /\ UNCHANGED <<kerr, kpc>>
          ELSE IF IntRaises(m.group1)
          THEN /\ kerr' = "ValueError"
               /\ kpc' = "raised"
               /\ UNCHANGED log
          ELSE IF Mismatch(IntOf(m.group1), serial_number)
          THEN /\ log' = Append(log, [ warning |-> "serial number mismatch",
                                       channel |-> channel ])
               /\ UNCHANGED <<kerr, kpc>>
          ELSE UNCHANGED <<log, kerr, kpc>>
    /\ next_channel' = IF kpc' = "raised" THEN next_channel
                       ELSE next_channel + 1
    /\ UNCHANGED <<self_channels, serial_number>>

\* the loop is over: return None
CheckReturn ==
    /\ UNCHANGED notk
    /\ kpc = "loop"
    /\ next_channel > Len(self_channels)
    /\ kpc' = "returned"
    /\ UNCHANGED <<self_channels, serial_number, next_channel, log, kerr>>

---------------------------------------------------------------------------
(* Specifications *)

InitMp4 == Mp4Begin /\ XIdle /\ CodecIdle /\ IntrIdle /\ HeaderIdle
    /\ MetaIdle /\ CheckIdle

NextMp4 ==
    \/ FirstNone
    \/ ReadFirst
    \/ MuxFirst
    \/ MuxNext
    \/ StreamEnd
    \/ CheckTimestamps
    \/ Return

SpecMp4 == InitMp4 /\ [][NextMp4]_vars

InitExtract == Mp4Idle /\ XBegin /\ CodecIdle /\ IntrIdle /\ HeaderIdle
    /\ MetaIdle /\ CheckIdle

NextExtract ==
    \/ FindChannel
    \/ CopyMessage
    \/ Finish

SpecExtract == InitExtract /\ [][NextExtract]_vars

InitCodec == Mp4Idle /\ XIdle /\ CodecBegin /\ IntrIdle /\ HeaderIdle
    /\ MetaIdle /\ CheckIdle

NextCodec == DetectCodec

SpecCodec == InitCodec /\ [][NextCodec]_vars

InitIntrinsics == Mp4Idle /\ XIdle /\ CodecIdle /\ IntrBegin /\ HeaderIdle
    /\ MetaIdle /\ CheckIdle

NextIntrinsics == FromConfig

SpecIntrinsics == InitIntrinsics /\ [][NextIntrinsics]_vars

InitHeader ==
    Mp4Idle /\ XIdle /\ CodecIdle /\ IntrIdle /\ HeaderBegin /\ MetaIdle
    /\ CheckIdle

NextHeader == FromBase64

SpecHeader == InitHeader /\ [][NextHeader]_vars

InitMeta ==
    Mp4Idle /\ XIdle /\ CodecIdle /\ IntrIdle /\ HeaderIdle /\ MetaBegin
    /\ CheckIdle

NextMeta ==
    \/ GetSummary
    \/ ReadFooter
    \/ ReadHeader
    \/ Build

SpecMeta == InitMeta /\ [][NextMeta]_vars

InitCheck ==
    Mp4Idle /\ XIdle /\ CodecIdle /\ IntrIdle /\ HeaderIdle /\ MetaIdle
    /\ CheckBegin

NextCheck ==
    \/ CheckChannel
    \/ CheckReturn

SpecCheck == InitCheck /\ [][NextCheck]_vars

Init ==
    InitMp4 \/ InitExtract \/ InitCodec \/ InitIntrinsics \/ InitHeader
    \/ InitMeta \/ InitCheck

Next ==
    NextMp4 \/ NextExtract \/ NextCodec \/ NextIntrinsics \/ NextHeader
    \/ NextMeta \/ NextCheck

Spec == Init /\ [][Next]_vars

---------------------------------------------------------------------------
(* Properties of mp4_from_svo2 *)

\* last_pts as the loop sees it before packet i (1-based)
LastBefore(i) == IF i = 1 THEN -1 ELSE packets[i - 1]

\* a non-monotonic warning was logged for frame i (0-based)
WarnedFrame(i) ==
    \E w \in 1..Len(warnings) :
        /\ warnings[w].kind = "non_monotonic"
        /\ warnings[w].frame = i

\* C1: the presentation timestamps given to the muxed packets are strictly
\* increasing in arrival order, whatever the footer timestamps are.
C1_StrictlyIncreasing ==
    \A i \in 1..Len(packets) : \A j \in 1..Len(packets) :
        i < j => packets[i] < packets[j]

\* three packets muxed from a duplicated and then a decreasing footer
\* timestamp, the last one below the first message's
C1_Witness ==
    /\ Len(packets) = 3
    /\ timestamps[2] = timestamps[1]
    /\ timestamps[3] < timestamps[1]

\* C2: the emitted pts is the computed one when that is greater than the
\* last emitted pts, and last + 1 with a warning logged exactly when the
\* computed one is <= the last emitted; the first message is emitted with
\* pts 0 and never clamped.
C2_ClampExactlyWhenNeeded ==
    \A i \in 1..Len(packets) :
        /\ computed[i] > LastBefore(i) =>
              packets[i] = computed[i] /\ ~WarnedFrame(i - 1)
        /\ computed[i] <= LastBefore(i) =>
              packets[i] = LastBefore(i) + 1 /\ WarnedFrame(i - 1)
        /\ i = 1 => packets[i] = 0 /\ ~WarnedFrame(0)

\* an unclamped packet after the first, followed by a clamped one
C2_Witness ==
    /\ Len(packets) = 3
    /\ computed[2] > packets[1]
    /\ packets[2] = computed[2]
    /\ computed[3] <= packets[2]
    /\ packets[3] = packets[2] + 1

\* C3 as stated: the computed pts is (footer.timestamp - origin) / 1000
\* truncated toward zero, origin being the first message's footer
\* timestamp, also for a negative difference.
C3_TruncatedTowardZero ==
    \A i \in 1..Len(computed) :
        computed[i] = TruncDiv(timestamps[i] - timestamps[1], 1000)

\* C3 amended: the computed pts is (footer.timestamp - origin) / 1000
\* rounded toward minus infinity (floor): the integer q with
\* 1000 * q <= footer.timestamp - origin < 1000 * (q + 1).
C3_FloorDivision ==
    \A i \in 1..Len(computed) :
        LET d == timestamps[i] - timestamps[1]
            q == computed[i]
        IN 1000 * q <= d /\ d < 1000 * (q + 1)

\* a message whose footer timestamp is below the origin by a non-multiple
\* of 1000 has been processed
C3_Witness ==
    \E i \in 1..Len(computed) :
        /\ timestamps[i] < timestamps[1]
        /\ (timestamps[1] - timestamps[i]) % 1000 # 0

\* C4 as stated: mp4_from_svo2 returns one entry per video message, in
\* arrival order, each equal to the (signed) last_keyframe_index of that
\* message's footer, as many as packets were muxed.
C4_ReturnsFooterKeyframes ==
    /\ err # "OverflowError"
    /\ (pc = "done" /\ Len(packets) >= 1) =>
          /\ result.shape = << Len(packets) >>
          /\ Len(result.data) = Len(keyframes)
          /\ \A i \in 1..Len(keyframes) :
                U32Equals(result.data[i], keyframes[i])

\* C5 as stated: on a video channel with no message the result has zero
\* elements and the output container is neither created nor written.
C5_EmptyChannelEmptyResult ==
    (pc = "done" /\ Len(timestamps) = 0) =>
        /\ NpSize(result) = 0
        /\ container = "absent"
        /\ packets = << >>

\* C6 as stated: a message whose length is not exactly
\* 8 + frame_size + 56 makes mp4_from_svo2 raise, and is not muxed.
C6_RejectsBadFraming ==
    (cur # NoMsg /\ cur.n # PrefixSize + cur.size + FooterSize) =>
        /\ pc = "raised"
        /\ Len(packets) = Len(timestamps)

\* C7 as stated: whatever metadata.timestamps holds for the video channel
\* (no entry included), the comparison after muxing does not raise.
C7_CheckNeverRaises ==
    (container = "closed" /\ Len(packets) >= 1) => err # "KeyError"

---------------------------------------------------------------------------
(* Properties of extract_channel *)

\* the payloads of the messages of msgs on channel id, concatenated
RECURSIVE ConcatOn(_, _)
ConcatOn(msgs, id) ==
    IF msgs = << >> THEN << >>
    ELSE (IF Head(msgs).id = id THEN Head(msgs).data ELSE << >>)
         \o ConcatOn(Tail(msgs), id)

\* positions in seen of the messages on channel id
OnChannel(id) == { i \in 1..Len(seen) : seen[i].id = id }

\* positions in seen of the messages on channel id that carry bytes
NonEmptyOn(id) == { i \in OnChannel(id) : seen[i].data # << >> }

\* some declared channel matches the selector
SomeChannelMatches ==
    \E i \in 1..Len(channels) :
        \/ IsSubstring(channel_topic, channels[i].topic)
        \/ Str(channels[i].id) = channel_topic

\* C8 as stated: the output holds exactly the payloads of the selected
\* channel's messages in arrival order, message_count is the number of
\* messages on that channel, empty ones included, and total_bytes the sum
\* of their lengths.
C8_CountsEveryMessage ==
    xpc = "done" =>
        /\ out_file = ConcatOn(seen, target_channel_id)
        /\ xresult.message_count = Cardinality(OnChannel(target_channel_id))
        /\ xresult.total_bytes = Len(ConcatOn(seen, target_channel_id))

\* C8 amended: the output holds exactly the payloads of the selected
\* channel's messages in arrival order, total_bytes is the sum of their
\* lengths, and message_count is the number of messages on that channel
\* whose payload is not empty.
C8_CountsNonEmptyMessages ==
    xpc = "done" =>
        /\ out_file = ConcatOn(seen, target_channel_id)
        /\ xresult.message_count = Cardinality(NonEmptyOn(target_channel_id))
        /\ xresult.total_bytes = Len(ConcatOn(seen, target_channel_id))

\* an extraction that met a payload and an empty message on the selected
\* channel and a payload on another channel
C8_Witness ==
    /\ xpc = "done"
    /\ \E i \in 1..Len(seen) :
         seen[i].id = target_channel_id /\ seen[i].data = << >>
    /\ \E i \in 1..Len(seen) :
         seen[i].id = target_channel_id /\ seen[i].data # << >>
    /\ \E i \in 1..Len(seen) :
         seen[i].id # target_channel_id /\ seen[i].data # << >>

\* C9: when no declared channel matches the selector, extract_channel
\* raises not-found and the output file is neither opened nor changed.
C9_NotFoundLeavesOutput ==
    (~SomeChannelMatches /\ xpc # "find") =>
        /\ xpc = "raised"
        /\ out_state = "untouched"
        /\ out_file = << 9 >>

\* not-found raised on a container that declares channels, none matching
C9_Witness ==
    /\ xpc = "raised"
    /\ Len(channels) = MaxChannels
    /\ ~SomeChannelMatches

\* C10 as stated: the first channel in iteration order whose topic contains
\* the selector or whose id in decimal equals it is selected, and whenever
\* one exists (id 0 included) extraction proceeds instead of raising.
C10_FirstMatchProceeds ==
    (SomeChannelMatches /\ xpc # "find") =>
        /\ xpc # "raised"
        /\ \E i \in 1..Len(channels) :
             /\ Matches(channels[i], channel_topic)
             /\ \A j \in 1..(i - 1) : ~Matches(channels[j], channel_topic)
             /\ target_channel_id = channels[i].id

---------------------------------------------------------------------------
(* Properties of detect_codec *)

\* the start code lies at 0-based offset i of byte string h
StartCodeAt(h, i) ==
    /\ i + 4 <= Len(h)
    /\ SubSeq(h, i + 1, i + 4) = StartCode

\* i is the offset of the first start code inside the examined window
FirstStartCodeAt(i) ==
    /\ i + 4 <= HeaderWindow
    /\ StartCodeAt(codec_sample, i)
    /\ \A j \in 0..(i - 1) : ~StartCodeAt(codec_sample, j)

\* the classification of NAL byte b: bits 1-6 in {32, 33, 34} is HEVC, else
\* bits 0-4 in {7, 8} is AVC, else HEVC
NalClass(b) ==
    IF \E t \in {32, 33, 34} : b % 128 \in {2 * t, 2 * t + 1} THEN "hevc"
    ELSE IF \E t \in {7, 8} : b % 32 = t THEN "h264"
    ELSE "hevc"

\* C13 as stated: without a start code in the first 128 bytes the result is
\* HEVC; otherwise the byte after the first start code decides: HEVC when
\* (b & 0x7E) >> 1 is in {32, 33, 34}, else AVC when b & 0x1F is in {7, 8},
\* else HEVC.
C13_Classification ==
    cpc # "call" =>
        /\ (\A i \in 0..(HeaderWindow - 4) : ~StartCodeAt(codec_sample, i)) =>
              cpc = "returned" /\ codec = "hevc"
        /\ \A i \in 0..(HeaderWindow - 4) :
              (FirstStartCodeAt(i) /\ i + 4 < Len(codec_sample)) =>
                  cpc = "returned" /\ codec = NalClass(codec_sample[i + 5])

\* C17 as stated: detect_codec returns "hevc" or "h264" for every byte
\* string and never raises.
C17_Total ==
    cpc # "call" => cpc = "returned" /\ codec \in { "hevc", "h264" }

---------------------------------------------------------------------------
(* Properties of StereoIntrinsics.from_config *)

\* the sections and keys mode m requires and cfg lacks
Absent(m) ==
    LET lks == CameraLookups(m) \o StereoLookups(m)
    IN { MissingName(lks[i]) : i \in { j \in 1..Len(lks) : ~Has(cfg, lks[j]) } }

---------------------------------------------------------------------------
(* Properties of Header.from_base64 *)

\* C12: from_base64 returns exactly when the decoded buffer is 128 bytes
\* long, and then the Header's bytes are the decoded bytes; a decoded
\* buffer of any other length raises ValueError and yields no Header.
C12_ExactLengthRoundTrip ==
    (hpc # "call" /\ herr # "binascii.Error") =>
        /\ hpc = "returned" <=> Len(decoded) = 128
        /\ hpc = "returned" => herr = "none" /\ HeaderBytes(header) = decoded
        /\ Len(decoded) # 128 =>
              hpc = "raised" /\ herr = "ValueError" /\ header = NoHeader

\* a 128-byte buffer whose bytes are not all alike was decoded and
\* re-encoded
C12_Witness ==
    /\ hpc = "returned"
    /\ Len(decoded) = 128
    /\ \E i, j \in 1..128 : decoded[i] # decoded[j]
    /\ HeaderBytes(header) = decoded

---------------------------------------------------------------------------
(* Properties of Metadata.from_mcap *)

\* the channel names of a Metadata's channels map
ChannelKeys(md) == { md.channels[i] : i \in 1..Len(md.channels) }

\* C11: from_mcap takes at most one message from svo_footer and from
\* svo_header, and exactly one of each when it returns; when the footer
\* stream is asked and yields nothing it raises the missing-message
\* ValueError without touching svo_header, when the header stream is asked
\* and yields nothing it raises it after the one footer message; a raise
\* produces no Metadata.
C11_OneMessagePerControlChannel ==
    /\ consumed.svo_footer <= 1
    /\ consumed.svo_header <= 1
    /\ mpc = "done" =>
          /\ consumed = [ svo_footer |-> 1, svo_header |-> 1 ]
          /\ metadata.produced
    /\ mpc # "done" => ~metadata.produced
    /\ (mpc \notin { "idle", "call", "footer" }
          /\ mcap.summary
          /\ mcap.svo_footer = << >>) =>
          /\ mpc = "raised"
          /\ merr = [ kind |-> "ValueError", what |-> "svo_footer" ]
          /\ consumed = [ svo_footer |-> 0, svo_header |-> 0 ]
    /\ (mpc \notin { "idle", "call", "footer", "header" }
          /\ mcap.summary
          /\ mcap.svo_footer # << >>
          /\ mcap.svo_footer[1].json
          /\ mcap.svo_header = << >>) =>
          /\ mpc = "raised"
          /\ merr = [ kind |-> "ValueError", what |-> "svo_header" ]
          /\ consumed = [ svo_footer |-> 1, svo_header |-> 0 ]

\* the header channel yielded nothing after one of two footer messages
\* was taken
C11_Witness ==
    /\ mpc = "raised"
    /\ merr = [ kind |-> "ValueError", what |-> "svo_header" ]
    /\ Len(mcap.svo_footer) = 2
    /\ consumed = [ svo_footer |-> 1, svo_header |-> 0 ]
    /\ ~metadata.produced

\* C16 as stated: in every Metadata from_mcap returns, each key of the
\* timestamps map is a key of the channels map.
C16_TimestampKeysAreChannels ==
    metadata.produced => metadata.keys \subseteq ChannelKeys(metadata)

---------------------------------------------------------------------------
(* Properties of Metadata.consistency_check *)

\* a warning of this kind was logged for the channel
Warned(kind, channel) ==
    \E i \in 1..Len(log) : log[i] = [ warning |-> kind, channel |-> channel ]

\* C15 as stated: consistency_check never raises; for every channel
\* Camera_SN<digits>/<suffix> it has looked at, a mismatch warning is
\* logged exactly when the embedded serial differs from
\* header.serial_number; every Camera-prefixed name that does not parse
\* has its warning.
C15_WarnsAndNeverRaises ==
    /\ kpc # "raised"
    /\ \A i \in 1..(next_channel - 1) :
          LET channel == self_channels[i]
              m == ReMatch(channel)
          IN /\ (m.matched /\ ~IntRaises(m.group1)) =>
                   (Warned("serial number mismatch", channel)
                      <=> IntOf(m.group1) # serial_number)
             /\ (StartsWith(channel, CameraPrefix) /\ ~m.matched) =>
                   Warned("unexpected pattern", channel)

===========================================================================
